---- MODULE Spec2Model ----
(***************************************************************************)
(* A model of the NamespaceClass controller                                *)
(* (internal/controller/namespace_controller.go).                          *)
(*                                                                         *)
(* The object store (namespaces, classes, managed objects) is the shared   *)
(* state.  One Reconcile pass per namespace runs at a time; passes of      *)
(* different namespaces interleave at the granularity of one store         *)
(* operation.  Every store operation may fail (bounded by MaxFailures).    *)
(***************************************************************************)
EXTENDS Integers, Sequences, FiniteSets, TLC

\* ------------------------------------------------------------------ bounds
MaxFailures == 1      \* store operations that may fail in one behaviour
MaxEdits == 1         \* out-of-band edits (relabel, class spec edit) in one behaviour

\* ---------------------------------------------------------------- universe
Namespaces == {"n1", "n2"}
NamespaceItems == <<"n1", "n2">>     \* the order in which a list returns them
NoLabel == "<nolabel>"               \* the class label is absent from Labels
Unset == "<unset>"                   \* the last-name annotation is absent

\* A manifest is the raw JSON of one resource; valid = UnmarshalJSON succeeds.
Manifest(k, nm, c) ==
    [valid |-> TRUE, apiVersion |-> "v1", kind |-> k, name |-> nm, content |-> c]
BadManifest ==
    [valid |-> FALSE, apiVersion |-> "", kind |-> "", name |-> "", content |-> "?"]

mX == Manifest("X", "x", "c1")
mXedited == Manifest("X", "x", "c2")
mY == Manifest("Y", "y", "c1")
mYrenamed == Manifest("Y", "y2", "c1")
mZ == Manifest("Z", "z", "c1")

\* ResourceStatus (api/v1 types): one ledger entry.
ResourceStatus(o) == [kind |-> o.kind, name |-> o.name, apiVersion |-> o.apiVersion]

\* NamespaceClass as held by a pass; the zero value is what a NotFound leaves.
ZeroClass == [name |-> "", spec |-> <<>>, status |-> <<>>, resourceVersion |-> 0]
\* corev1.Namespace as held by a pass; the zero value is what a NotFound leaves
\* (exists: the store holds a namespace of that name).
ZeroNamespace == [label |-> NoLabel, lastName |-> Unset, exists |-> FALSE]

VARIABLES
    namespaces,   \* store: namespace name -> [label, lastName, exists]
    classes,      \* store: class name -> [spec, status, resourceVersion]
    objects,      \* store: set of managed objects [namespace, apiVersion, kind, name, content]
    pc,           \* per namespace: position of its Reconcile pass
    result,       \* per namespace: "none" | "ok" | "err" of the pass
    loc,          \* per namespace: the locals of the pass
    did,          \* per namespace: the writes the pass has issued and the error that ended it
    quiet,        \* per namespace: nobody else changed the store since its last successful pass
    failures,     \* failed store operations so far
    edits,        \* out-of-band edits so far
    reqs,         \* what the last mapNamespaceClassToNamespaces call returned
    orphaned      \* per class: the ledger entries its last spec edit stopped declaring

vars == <<namespaces, classes, objects, pc, result, loc, did, quiet, failures, edits, reqs,
         orphaned>>
store == <<namespaces, classes, objects>>

InitLoc ==
    [namespace |-> ZeroNamespace, namespaceClass |-> ZeroClass, i |-> 0,
     lastName |-> Unset, oldSpec |-> <<>>, ci |-> 0,
     rng |-> <<>>, k |-> 0, target |-> ResourceStatus(BadManifest), j |-> 0, innerLen |-> 0,
     follow |-> FALSE, start |-> [objects |-> {}, lastName |-> Unset, ledger |-> <<>>]]

\* ----------------------------------------------------------- pure helpers

\* (mutant) the decoded object is not moved into the reconciled namespace
DecodeWithoutSetNamespace(m, ns) ==
    [namespace |-> "n1", apiVersion |-> m.apiVersion, kind |-> m.kind,
     name |-> m.name, content |-> m.content]

\* unstructured object decoded from a manifest, with SetNamespace(ns)
Decode(m, ns) ==
    [namespace |-> ns, apiVersion |-> m.apiVersion, kind |-> m.kind,
     name |-> m.name, content |-> m.content]

\* client.ObjectKeyFromObject + GVK: what Get/Delete address
SameKey(a, b) ==
    /\ a.namespace = b.namespace
    /\ a.apiVersion = b.apiVersion
    /\ a.kind = b.kind
    /\ a.name = b.name

Live(objs, o) == {x \in objs : SameKey(x, o)}

\* (mutant) the ledger is never looked at before the append
resourceNeverInStatus(o, status) == FALSE

\* resourceExistsInNamespaceClassStatus: name, apiVersion and kind all equal
resourceExistsInNamespaceClassStatus(o, status) ==
    \E p \in 1..Len(status) :
        /\ status[p].name = o.name
        /\ status[p].apiVersion = o.apiVersion
        /\ status[p].kind = o.kind

\* (mutant) the scan compares the apiVersion alone
resourceExistsSameAPIVersion(o, spec) ==
    \E p \in 1..Len(spec) :
        /\ \A q \in 1..p : spec[q].valid
        /\ spec[p].apiVersion = o.apiVersion

\* resourceExistsInNamespaceClass: scan spec.resources in order; an undecodable
\* manifest ends the scan with false; a manifest of the same GroupVersionKind
\* ends it with true.
RECURSIVE ExistsFrom(_, _, _)
ExistsFrom(o, spec, p) ==
    IF p > Len(spec) THEN FALSE
    ELSE IF ~spec[p].valid THEN FALSE
    ELSE IF spec[p].apiVersion = o.apiVersion /\ spec[p].kind = o.kind THEN TRUE
    ELSE ExistsFrom(o, spec, p + 1)

resourceExistsInNamespaceClass(o, spec) == ExistsFrom(o, spec, 1)

RECURSIVE NextOrphan(_, _, _)
\* outer loop of handleResourcesDeletion: the next index of the ranged ledger
\* whose {apiVersion, kind} the class no longer declares (0: none left)
NextOrphan(rng, from, spec) ==
    IF from > Len(rng) THEN 0
    ELSE IF ~resourceExistsInNamespaceClass(rng[from], spec) THEN from
    ELSE NextOrphan(rng, from + 1, spec)

RECURSIVE NextMatch(_, _, _, _)
\* inner loop of handleResourcesDeletion: the next index, up to the length the
\* inner range was started with, whose entry equals the deleted one (0: none)
NextMatch(rng, from, to, t) ==
    IF from > to THEN 0
    ELSE IF rng[from].name = t.name /\ rng[from].apiVersion = t.apiVersion
            /\ rng[from].kind = t.kind THEN from
    ELSE NextMatch(rng, from + 1, to, t)

\* append(Resources[:i], Resources[i+1:]...) : the new slice
RemoveAt(status, j) == SubSeq(status, 1, j - 1) \o SubSeq(status, j + 1, Len(status))

\* ... and what it does to the backing array the outer range still reads:
\* the elements after j move one place left, the last place keeps its value
ShiftArr(rng, len, j) ==
    [p \in 1..Len(rng) |-> IF p >= j /\ p < len THEN rng[p + 1] ELSE rng[p]]

\* ---------------------------------------------------------- store helpers

\* r.Create / r.Update of a managed object: the stored object becomes o
Put(objs, o) == {x \in objs : ~SameKey(x, o)} \cup {o}

\* r.Get(ctx, key, obj) followed by r.Create or r.Update (lines 98-116): Get
\* fills obj with the live object, so Update sends back what Get read
Apply(objs, decoded) ==
    IF Live(objs, decoded) = {} THEN Put(objs, decoded)
    ELSE Put(objs, CHOOSE x \in Live(objs, decoded) : TRUE)

\* (mutant) the status is written whatever resourceVersion the copy carries
ConflictIgnored(nc) == FALSE

\* r.Status().Update: refused when the pass's copy of the class is stale
Conflict(nc) == classes[nc.name].resourceVersion # nc.resourceVersion

StatusUpdate(nc) ==
    [classes EXCEPT ![nc.name] =
        [@ EXCEPT !.status = nc.status, !.resourceVersion = @ + 1]]

\* fetchNamespaceClass: NotFound leaves the zero value
Fetched(name) ==
    IF name \in DOMAIN classes
    THEN [name |-> name, spec |-> classes[name].spec, status |-> classes[name].status,
          resourceVersion |-> classes[name].resourceVersion]
    ELSE ZeroClass

\* --------------------------------------------------------------- bookkeeping

\* the pass returns r; its locals die with it (what it started from is kept
\* for the properties)
Finish(n, r) ==
    /\ pc' = [pc EXCEPT ![n] = "done"]
    /\ result' = [result EXCEPT ![n] = r]
    /\ loc' = [loc EXCEPT ![n] =
                 [InitLoc EXCEPT !.follow = loc[n].follow, !.start = loc[n].start]]

\* the pass goes on at label with locals l
Goto(n, label, l) ==
    /\ pc' = [pc EXCEPT ![n] = label]
    /\ loc' = [loc EXCEPT ![n] = l]
    /\ UNCHANGED result

Did(n, op) == did' = [did EXCEPT ![n] = @ \cup {op}]

\* a change of the store by pass n ends the quiet of the other namespaces
Disturb(n) ==
    quiet' = IF store' = store THEN quiet
             ELSE [m \in Namespaces |-> IF m = n THEN quiet[m] ELSE FALSE]

Idle == \A n \in Namespaces : pc[n] = "idle"

NoReqs == [class |-> "", listed |-> FALSE, items |-> <<>>]

\* ------------------------------------------------------------------- Init
\* What an operator may set a class's spec.resources to.
SpecMenu(c) ==
    IF c = "A" THEN { <<mX, mY>>, <<mXedited, mY>>, <<mY>>, <<mZ>>, <<mX, BadManifest>> }
    ELSE { <<mY, mZ>>, <<mYrenamed, mZ>> }

\* What a user may set a namespace's class label to ("Q" names no class).
LabelMenu == {"A", "B", "Q", NoLabel}

\* A cluster in which the operator has created classes A and B and two
\* namespaces, and the controller has not run yet.
Init ==
    /\ namespaces \in
         { [n \in Namespaces |->
              [label |-> IF n = "n1" THEN "A" ELSE l, lastName |-> Unset, exists |-> TRUE]]
             : l \in {"A", NoLabel} }
    /\ classes \in
         { [c \in {"A", "B"} |->
              [spec |-> IF c = "A" THEN <<mX, mY>> ELSE b, status |-> <<>>,
               resourceVersion |-> 1]]
             : b \in { <<mY, mZ>>, <<mYrenamed, mZ>> } }
    /\ objects = {}
    /\ pc = [n \in Namespaces |-> "idle"]
    /\ result = [n \in Namespaces |-> "none"]
    /\ loc = [n \in Namespaces |-> InitLoc]
    /\ did = [n \in Namespaces |-> {}]
    /\ quiet = [n \in Namespaces |-> FALSE]
    /\ failures = 0
    /\ edits = 0
    /\ reqs = NoReqs
    /\ orphaned = [c \in {"A", "B"} |-> {}]

\* ------------------------------------------------------- the Reconcile pass

\* where the pass goes after resource i of handleResources (lines 89, 131)
AfterResource(nc, i) ==
    IF i + 1 <= Len(nc.spec) THEN "handleResources" ELSE "handleNamespaceAnnotations"

\* (mutant) Reconcile without the early return of lines 40-43
ReconcileWithoutLabelCheck(n) ==
    /\ pc[n] = "idle"
    /\ Goto(n, "fetchNamespaceClass",
            [InitLoc EXCEPT !.namespace = namespaces[n],
                            !.follow = quiet[n],
                            !.start = [objects |-> {o \in objects : o.namespace = n},
                                       lastName |-> namespaces[n].lastName,
                                       ledger |-> Fetched(namespaces[n].label).status]])
    /\ reqs' = NoReqs
    /\ UNCHANGED <<namespaces, classes, objects, did, quiet, failures, edits, orphaned>>

\* Reconcile, lines 30-43: fetchNamespace and the label lookup
Reconcile(n) ==
    /\ pc[n] = "idle"
    /\ LET l == [InitLoc EXCEPT !.namespace = namespaces[n],
                                !.follow = quiet[n],
                                !.start = [objects |-> {o \in objects : o.namespace = n},
                                           lastName |-> namespaces[n].lastName,
                                           ledger |-> Fetched(namespaces[n].label).status]]
       IN IF namespaces[n].label = NoLabel
          THEN /\ pc' = [pc EXCEPT ![n] = "done"]
               /\ result' = [result EXCEPT ![n] = "ok"]
               /\ loc' = [loc EXCEPT ![n] = [l EXCEPT !.namespace = ZeroNamespace]]
          ELSE Goto(n, "fetchNamespaceClass", l)
    /\ reqs' = NoReqs
    /\ UNCHANGED <<namespaces, classes, objects, did, quiet, failures, edits, orphaned>>

\* Reconcile, lines 45-48: fetchNamespaceClass by the label
fetchNamespaceClass(n) ==
    /\ pc[n] = "fetchNamespaceClass"
    /\ LET nc == Fetched(loc[n].namespace.label)
       IN Goto(n, AfterResource(nc, 0), [loc[n] EXCEPT !.namespaceClass = nc, !.i = 1])
    /\ UNCHANGED <<namespaces, classes, objects, did, quiet, failures, edits, reqs, orphaned>>

\* handleResources, lines 89-124: one iteration up to the status update
handleResources(n) ==
    /\ pc[n] = "handleResources"
    /\ UNCHANGED <<namespaces, classes, failures, edits, reqs, orphaned>>
    /\ LET l == loc[n]
           nc == l.namespaceClass
           m == nc.spec[l.i]
           obj == Decode(m, n)
       IN IF ~m.valid
          THEN /\ Finish(n, "err")
               /\ Did(n, "decode error")
               /\ UNCHANGED objects
          ELSE /\ objects' = Apply(objects, obj)
               /\ Did(n, IF Live(objects, obj) = {} THEN "create" ELSE "update")
               /\ IF ~resourceExistsInNamespaceClassStatus(obj, nc.status)
                  THEN Goto(n, "statusAppend",
                            [l EXCEPT !.namespaceClass.status =
                                          Append(@, ResourceStatus(obj))])
                  ELSE Goto(n, AfterResource(nc, l.i), [l EXCEPT !.i = @ + 1])
    /\ Disturb(n)

\* handleResources, lines 125-128: persist the appended ledger
statusAppend(n) ==
    /\ pc[n] = "statusAppend"
    /\ UNCHANGED <<namespaces, objects, failures, edits, reqs, orphaned>>
    /\ LET l == loc[n]
           nc == l.namespaceClass
       IN IF Conflict(nc)
          THEN /\ Finish(n, "err")
               /\ Did(n, "conflict")
               /\ UNCHANGED classes
          ELSE /\ classes' = StatusUpdate(nc)
               /\ Did(n, "status")
               /\ Goto(n, AfterResource(nc, l.i),
                       [l EXCEPT !.namespaceClass.resourceVersion = @ + 1, !.i = @ + 1])
    /\ Disturb(n)

\* the outer range of handleResourcesDeletion (line 199) starts, or resumes at
\* index from, over the backing array rng
SweepFrom(l, rng, from) ==
    [l EXCEPT !.rng = rng, !.k = NextOrphan(rng, from, l.namespaceClass.spec)]

\* ... and Reconcile returns nil when the range is exhausted (lines 226, 159, 58)
EndOrSweep(n, l) ==
    IF l.k = 0 THEN Finish(n, "ok") ELSE Goto(n, "handleResourcesDeletion", l)

\* (mutant) the detector runs whenever the annotation is set
AnnotationSet(last, name) == last # Unset

\* lines 141-143: the annotation is there and names another class
ClassHasChanged(last, name) == last # Unset /\ last # name

\* (mutant) the namespace is updated before the class-change sweep runs
handleNamespaceAnnotationsUpdateFirst(n) ==
    /\ pc[n] = "handleNamespaceAnnotations"
    /\ UNCHANGED <<classes, objects, failures, edits, reqs, orphaned>>
    /\ LET ns == loc[n].namespace
           nc == loc[n].namespaceClass
           last == ns.lastName
           changed == ClassHasChanged(last, nc.name)
           ns2 == IF last = Unset \/ changed THEN [ns EXCEPT !.lastName = nc.name] ELSE ns
           old == Fetched(last).spec
       IN /\ namespaces' = [namespaces EXCEPT ![n] = ns2]
          /\ Did(n, "nsupdate")
          /\ IF changed
             THEN Goto(n, IF Len(old) >= 1 THEN "handleNamespaceClassChange"
                                           ELSE "updateNamespace",
                       [loc[n] EXCEPT !.namespace = ns2, !.lastName = last,
                                      !.oldSpec = old, !.ci = 1])
             ELSE EndOrSweep(n, SweepFrom([loc[n] EXCEPT !.namespace = ns2], nc.status, 1))
    /\ Disturb(n)

\* handleNamespaceAnnotations, lines 137-153: set the annotation in memory,
\* then either fetch the old class (line 165) or persist the namespace
handleNamespaceAnnotations(n) ==
    /\ pc[n] = "handleNamespaceAnnotations"
    /\ UNCHANGED <<classes, objects, failures, edits, reqs, orphaned>>
    /\ LET ns == loc[n].namespace
           nc == loc[n].namespaceClass
           last == ns.lastName
           changed == ClassHasChanged(last, nc.name)
           ns2 == IF last = Unset \/ changed THEN [ns EXCEPT !.lastName = nc.name] ELSE ns
       IN IF changed
          THEN LET old == Fetched(last).spec
               IN /\ Goto(n, IF Len(old) >= 1 THEN "handleNamespaceClassChange"
                                              ELSE "updateNamespace",
                          [loc[n] EXCEPT !.namespace = ns2, !.lastName = last,
                                         !.oldSpec = old, !.ci = 1])
                  /\ UNCHANGED <<namespaces, did>>
          ELSE /\ namespaces' = [namespaces EXCEPT ![n] = ns2]
               /\ Did(n, "nsupdate")
               /\ EndOrSweep(n, SweepFrom([loc[n] EXCEPT !.namespace = ns2], nc.status, 1))
    /\ Disturb(n)

\* handleNamespaceClassChange, lines 169-193: one manifest of the old class
handleNamespaceClassChange(n) ==
    /\ pc[n] = "handleNamespaceClassChange"
    /\ UNCHANGED <<namespaces, classes, failures, edits, reqs, orphaned>>
    /\ LET l == loc[n]
           m == l.oldSpec[l.ci]
           obj == Decode(m, n)
           live == Live(objects, obj)
       IN IF ~m.valid
          THEN /\ Finish(n, "err")
               /\ Did(n, "decode error")
               /\ UNCHANGED objects
          ELSE /\ IF live # {} /\ ~resourceExistsInNamespaceClass(obj, l.namespaceClass.spec)
                  THEN /\ objects' = objects \ live
                       /\ Did(n, "delete")
                  ELSE UNCHANGED <<objects, did>>
               /\ Goto(n, IF l.ci + 1 <= Len(l.oldSpec) THEN "handleNamespaceClassChange"
                                                        ELSE "updateNamespace",
                       [l EXCEPT !.ci = @ + 1])
    /\ Disturb(n)

\* handleNamespaceAnnotations, lines 150-155, after a class change
updateNamespace(n) ==
    /\ pc[n] = "updateNamespace"
    /\ UNCHANGED <<classes, objects, failures, edits, reqs, orphaned>>
    /\ namespaces' = [namespaces EXCEPT ![n] = loc[n].namespace]
    /\ Did(n, "nsupdate")
    /\ EndOrSweep(n, SweepFrom(loc[n], loc[n].namespaceClass.status, 1))
    /\ Disturb(n)

\* handleResourcesDeletion, lines 199-212: the Delete of one orphaned entry;
\* Delete of an object that is not there returns NotFound, which is returned
handleResourcesDeletion(n) ==
    /\ pc[n] = "handleResourcesDeletion"
    /\ UNCHANGED <<namespaces, classes, failures, edits, reqs, orphaned>>
    /\ LET l == loc[n]
           e == l.rng[l.k]
           obj == [namespace |-> n, apiVersion |-> e.apiVersion, kind |-> e.kind,
                   name |-> e.name, content |-> ""]
           live == Live(objects, obj)
           innerLen == Len(l.namespaceClass.status)
           j == NextMatch(l.rng, 1, innerLen, e)
       IN IF live = {}
          THEN /\ Finish(n, "err")
               /\ Did(n, "not found")
               /\ UNCHANGED objects
          ELSE /\ objects' = objects \ live
               /\ Did(n, "delete")
               /\ IF j # 0
                  THEN Goto(n, "statusRemove",
                            [l EXCEPT !.target = e, !.innerLen = innerLen, !.j = j])
                  ELSE EndOrSweep(n, SweepFrom(l, l.rng, l.k + 1))
    /\ Disturb(n)

\* handleResourcesDeletion, lines 215-223: remove the entry at the matching
\* index and persist; the inner range goes on over the shifted array
statusRemove(n) ==
    /\ pc[n] = "statusRemove"
    /\ UNCHANGED <<namespaces, objects, failures, edits, reqs, orphaned>>
    /\ LET l == loc[n]
           nc == l.namespaceClass
           j == l.j
       IN IF j > Len(nc.status) \/ Conflict(nc)
          THEN \* slice bounds out of range, or a stale resourceVersion
               /\ Finish(n, "err")
               /\ Did(n, IF j > Len(nc.status) THEN "panic" ELSE "conflict")
               /\ UNCHANGED classes
          ELSE LET nc2 == [nc EXCEPT !.status = RemoveAt(nc.status, j)]
                   rng2 == ShiftArr(l.rng, Len(nc.status), j)
                   j2 == NextMatch(rng2, j + 1, l.innerLen, l.target)
                   l2 == [l EXCEPT !.namespaceClass =
                                       [nc2 EXCEPT !.resourceVersion = @ + 1],
                                   !.rng = rng2, !.j = j2]
               IN /\ classes' = StatusUpdate(nc2)
                  /\ Did(n, "status")
                  /\ IF j2 # 0 THEN Goto(n, "statusRemove", l2)
                     ELSE EndOrSweep(n, SweepFrom(l2, rng2, l.k + 1))
    /\ Disturb(n)

\* Reconcile returns (lines 36-58): the worker is free for the next request
Return(n) ==
    /\ pc[n] = "done"
    /\ pc' = [pc EXCEPT ![n] = "idle"]
    /\ quiet' = [quiet EXCEPT ![n] = (result[n] = "ok")]
    /\ result' = [result EXCEPT ![n] = "none"]
    /\ loc' = [loc EXCEPT ![n] = InitLoc]
    /\ did' = [did EXCEPT ![n] = {}]
    /\ UNCHANGED <<namespaces, classes, objects, failures, edits, reqs, orphaned>>

\* the pass is about to issue a store operation
AtStoreOp(n) ==
    \/ pc[n] \in {"idle", "fetchNamespaceClass", "statusAppend",
                  "handleNamespaceAnnotations", "updateNamespace",
                  "handleResourcesDeletion"}
    \/ pc[n] = "handleResources" /\ loc[n].namespaceClass.spec[loc[n].i].valid
    \/ pc[n] = "handleNamespaceClassChange" /\ loc[n].oldSpec[loc[n].ci].valid
    \/ pc[n] = "statusRemove" /\ loc[n].j <= Len(loc[n].namespaceClass.status)

\* (mutant) the error of the failed store operation is dropped
StoreFailureSwallowed(n) ==
    /\ failures < MaxFailures
    /\ AtStoreOp(n)
    /\ Finish(n, "ok")
    /\ Did(n, "store error")
    /\ failures' = failures + 1
    /\ reqs' = IF pc[n] = "idle" THEN NoReqs ELSE reqs
    /\ UNCHANGED <<namespaces, classes, objects, quiet, edits, orphaned>>

\* the store operation fails with an error other than NotFound: every call
\* site logs it and returns it (lines 36, 47, 100-113, 125-128, 150-153, 165,
\* 178-189, 208-210, 218-220)
StoreFailure(n) ==
    /\ failures < MaxFailures
    /\ AtStoreOp(n)
    /\ Finish(n, "err")
    /\ Did(n, "store error")
    /\ failures' = failures + 1
    /\ reqs' = IF pc[n] = "idle" THEN NoReqs ELSE reqs
    /\ UNCHANGED <<namespaces, classes, objects, quiet, edits, orphaned>>

\* ------------------------------------------------------------ out-of-band

\* a user sets or removes the class label of a namespace
SetLabel(n, l) ==
    /\ Idle
    /\ edits < MaxEdits
    /\ namespaces[n].exists
    /\ l # namespaces[n].label
    /\ namespaces' = [namespaces EXCEPT ![n].label = l]
    /\ edits' = edits + 1
    /\ quiet' = [m \in Namespaces |-> FALSE]
    /\ reqs' = NoReqs
    /\ UNCHANGED <<classes, objects, pc, result, loc, did, failures, orphaned>>

\* the operator edits spec.resources of a class
UpdateSpec(c, sp) ==
    /\ Idle
    /\ edits < MaxEdits
    /\ sp # classes[c].spec
    /\ classes' = [classes EXCEPT ![c] =
                      [@ EXCEPT !.spec = sp, !.resourceVersion = @ + 1]]
    /\ edits' = edits + 1
    /\ quiet' = [m \in Namespaces |-> FALSE]
    /\ reqs' = NoReqs
    /\ orphaned' = [orphaned EXCEPT ![c] =
                       {classes[c].status[p] : p \in 1..Len(classes[c].status)}
                       \ {e \in {classes[c].status[p] : p \in 1..Len(classes[c].status)} :
                              resourceExistsInNamespaceClass(e, sp)}]
    /\ UNCHANGED <<namespaces, objects, pc, result, loc, did, failures>>

\* ------------------------------------------------------------- the mapper

\* ns.Labels["namespaceclass.akuity.io/name"]: a missing key reads as ""
LabelValue(ns) == IF ns.label = NoLabel THEN "" ELSE ns.label

\* (mutant) the loop appends a request for every listed namespace
MapFromUnfiltered(items, p, name) == SubSeq(items, p, Len(items))

RECURSIVE MapFrom(_, _, _)
\* lines 284-292: one request per listed namespace whose label equals the name
MapFrom(items, p, name) ==
    IF p > Len(items) THEN <<>>
    ELSE (IF LabelValue(namespaces[items[p]]) = name THEN <<items[p]>> ELSE <<>>)
         \o MapFrom(items, p + 1, name)

\* r.List (line 278): the namespaces the store holds
Stored(n) == namespaces[n].exists

\* (mutant) the error of the list is not looked at
mapIgnoringListError(name, listOk) == MapFrom(SelectSeq(NamespaceItems, Stored), 1, name)

\* mapNamespaceClassToNamespaces, lines 266-295
mapNamespaceClassToNamespaces(name, listOk) ==
    IF ~listOk THEN <<>> ELSE MapFrom(SelectSeq(NamespaceItems, Stored), 1, name)

\* a watch event on class c is mapped to requests (lines 257-260)
ClassEvent(c, listOk) ==
    /\ Idle
    /\ listOk \/ failures < MaxFailures
    /\ reqs' = [class |-> c, listed |-> listOk,
                items |-> mapNamespaceClassToNamespaces(c, listOk)]
    /\ reqs' # reqs
    /\ failures' = IF listOk THEN failures ELSE failures + 1
    /\ UNCHANGED <<namespaces, classes, objects, pc, result, loc, did, quiet, edits, orphaned>>

\* ------------------------------------------------------------------- Next

\* the steps of a running pass
Step(n) ==
    \/ fetchNamespaceClass(n)
    \/ handleResources(n)
    \/ statusAppend(n)
    \/ handleNamespaceAnnotations(n)
    \/ handleNamespaceClassChange(n)
    \/ updateNamespace(n)
    \/ handleResourcesDeletion(n)
    \/ statusRemove(n)
    \/ Return(n)

\* the out-of-band edits, the watch events and the failures of the store
Environment ==
    \/ \E n \in Namespaces : StoreFailure(n)
    \/ \E n \in Namespaces, l \in LabelMenu : SetLabel(n, l)
    \/ \E c \in DOMAIN classes : \E sp \in SpecMenu(c) : UpdateSpec(c, sp)
    \/ \E c \in DOMAIN classes, listOk \in BOOLEAN : ClassEvent(c, listOk)

\* One worker (controller-runtime's default MaxConcurrentReconciles, which
\* SetupWithManager, lines 253-263, leaves as it is): a pass starts only
\* when no other pass is running.
Start(n) == Idle /\ Reconcile(n)

Next ==
    \/ \E n \in Namespaces : Start(n)
    \/ \E n \in Namespaces : Step(n)
    \/ Environment

Spec == Init /\ [][Next]_vars

\* Several workers: passes of different namespaces interleave between any two
\* store operations (never two passes of one namespace).  Both namespaces are
\* labeled with class A, from which the operator may remove declared kinds;
\* n1 is new, n2 was reconciled under class B before it was relabeled.
ShrinkMenu == { <<mY>>, <<mZ>> }

ConcInit ==
    /\ namespaces = [n \in Namespaces |->
                       [label |-> "A", lastName |-> IF n = "n2" THEN "B" ELSE Unset,
                        exists |-> TRUE]]
    /\ classes = [c \in {"A", "B"} |->
                    IF c = "A"
                    THEN [spec |-> <<mX, mY>>, status |-> <<>>, resourceVersion |-> 1]
                    ELSE [spec |-> <<mY, mZ>>,
                          status |-> <<ResourceStatus(mY), ResourceStatus(mZ)>>,
                          resourceVersion |-> 3]]
    /\ objects = {Decode(mY, "n2"), Decode(mZ, "n2")}
    /\ pc = [n \in Namespaces |-> "idle"]
    /\ result = [n \in Namespaces |-> "none"]
    /\ loc = [n \in Namespaces |-> InitLoc]
    /\ did = [n \in Namespaces |-> {}]
    /\ quiet = [n \in Namespaces |-> FALSE]
    /\ failures = 0
    /\ edits = 0
    /\ reqs = NoReqs
    /\ orphaned = [c \in {"A", "B"} |-> {}]

ConcNext ==
    \/ \E n \in Namespaces : Reconcile(n)
    \/ \E n \in Namespaces : Step(n)
    \/ \E n \in Namespaces : StoreFailure(n)
    \/ \E sp \in ShrinkMenu : UpdateSpec("A", sp)

ConcSpec == ConcInit /\ [][ConcNext]_vars

\* One worker again, in a cluster where class A declares three kinds and only
\* the namespace n1 exists: requests for n2 find no namespace.
SweepInit ==
    /\ namespaces = [n \in Namespaces |->
                       IF n = "n1" THEN [label |-> "A", lastName |-> Unset, exists |-> TRUE]
                       ELSE ZeroNamespace]
    /\ classes = [c \in {"A", "B"} |->
                    [spec |-> IF c = "A" THEN <<mX, mY, mZ>> ELSE <<mY, mZ>>,
                     status |-> <<>>, resourceVersion |-> 1]]
    /\ objects = {}
    /\ pc = [n \in Namespaces |-> "idle"]
    /\ result = [n \in Namespaces |-> "none"]
    /\ loc = [n \in Namespaces |-> InitLoc]
    /\ did = [n \in Namespaces |-> {}]
    /\ quiet = [n \in Namespaces |-> FALSE]
    /\ failures = 0
    /\ edits = 0
    /\ reqs = NoReqs
    /\ orphaned = [c \in {"A", "B"} |-> {}]

SweepSpec == SweepInit /\ [][Next]_vars

\* A request whose pass returned an error is requeued, and the queue serves
\* every namespace: a pass that can start does start, a running pass goes on.
FairSpec ==
    /\ Init
    /\ [][Next]_vars
    /\ \A n \in Namespaces : SF_vars(Start(n)) /\ WF_vars(Step(n))

\* ------------------------------------------------------------- properties

Returned(n, r) == pc[n] = "done" /\ result[n] = r
HasClass(n) == namespaces[n].label \in DOMAIN classes
ClassOf(n) == classes[namespaces[n].label]
Gvk(o) == <<o.apiVersion, o.kind>>
Key(o) == <<o.apiVersion, o.kind, o.name>>
Elems(seq) == {seq[p] : p \in 1..Len(seq)}
InNs(n) == {o \in objects : o.namespace = n}

\* C1 (convergence completeness): after a pass of N that returned no error,
\* the live objects of N whose {apiVersion, kind} the class declares are exactly
\* the declared objects, and the ledger has one entry per declared
\* {apiVersion, kind}.
C1_ConvergenceCompleteness ==
    \A n \in Namespaces :
        Returned(n, "ok") /\ HasClass(n) =>
            LET declared == Elems(ClassOf(n).spec)
                ledger == ClassOf(n).status
            IN /\ {Key(o) : o \in {x \in InNs(n) : \E m \in declared : Gvk(m) = Gvk(x)}}
                    = {Key(m) : m \in declared}
               /\ \A m \in declared :
                    Cardinality({p \in 1..Len(ledger) : Gvk(ledger[p]) = Gvk(m)}) = 1

\* C2 (live content follows the manifest): after a pass that returned no
\* error, an object that was live when the pass started and whose
\* {apiVersion, kind, name} a manifest declares has the manifest's content.
C2_LiveContentFollowsManifest ==
    \A n \in Namespaces :
        Returned(n, "ok") /\ HasClass(n) =>
            \A m \in Elems(ClassOf(n).spec) :
                (\E o \in loc[n].start.objects : SameKey(o, Decode(m, n)))
                    => Decode(m, n) \in objects

Writes == {"create", "update", "delete", "status", "nsupdate"}
Declares(spec, e) == \E m \in Elems(spec) : Gvk(m) = Gvk(e)

\* the pass of n that has just returned found the annotation naming class a
\* while the label names another class
ClassChanged(n, a) ==
    /\ Returned(n, "ok")
    /\ HasClass(n)
    /\ loc[n].start.lastName = a
    /\ a \in DOMAIN classes
    /\ a # namespaces[n].label

\* C3 (class-change teardown): after a pass of N that returned no error, with
\* the annotation naming class A and the label naming class B: every object A
\* declares of a kind B does not declare is gone from N, every object A
\* declares of a kind B declares too is still where it was, every object B
\* declares is live, and the stored annotation reads B.
C3_ClassChangeTeardown ==
    \A n \in Namespaces : \A a \in DOMAIN classes :
        ClassChanged(n, a) =>
            /\ \A m \in Elems(classes[a].spec) :
                 IF Declares(ClassOf(n).spec, m)
                 THEN Live(loc[n].start.objects, Decode(m, n)) # {}
                          => Live(objects, Decode(m, n)) # {}
                 ELSE Live(objects, Decode(m, n)) = {}
            /\ \A b \in Elems(ClassOf(n).spec) : Live(objects, Decode(b, n)) # {}
            /\ namespaces[n].lastName = namespaces[n].label

\* C3 witness: a pass moved n1 from class A to class B, deleting X, keeping Y
\* and creating Z.
C3_Witness ==
    /\ ClassChanged("n1", "A")
    /\ namespaces["n1"].label = "B"
    /\ {Decode(mX, "n1"), Decode(mY, "n1")} \subseteq loc["n1"].start.objects
    /\ {"create", "delete"} \subseteq did["n1"]
    /\ Decode(mZ, "n1") \in objects

\* C4 (orphan pruning): when the last edit of class C removed one kind W that
\* the ledger still recorded, then after a pass of any namespace N labeled C
\* that returned no error, no W object is live in N and the ledger does not
\* record W.
C4_OrphanPruning ==
    \A n \in Namespaces :
        Returned(n, "ok") /\ HasClass(n)
        /\ Cardinality(orphaned[namespaces[n].label]) = 1 =>
            \A e \in orphaned[namespaces[n].label] :
                ~Declares(ClassOf(n).spec, e) =>
                    /\ ~\E o \in InNs(n) : Key(o) = Key(e)
                    /\ e \notin Elems(ClassOf(n).status)

\* C5 (absent class tolerance): a pass of a namespace whose label names a class
\* that does not exist issues no write at all and returns no error (unless
\* the store itself failed).
C5_AbsentClassTolerance ==
    \A n \in Namespaces :
        pc[n] = "done" /\ namespaces[n].label # NoLabel /\ ~HasClass(n) =>
            /\ did[n] \cap Writes = {}
            /\ result[n] = "err" => "store error" \in did[n]

\* C6 (malformed manifest, no partial application): a pass for a class with an
\* undecodable manifest, in which the store did not fail, returns an error
\* and has created or updated nothing.
C6_MalformedNoPartialApplication ==
    \A n \in Namespaces :
        pc[n] = "done" /\ HasClass(n) /\ "store error" \notin did[n]
        /\ (\E m \in Elems(ClassOf(n).spec) : ~m.valid) =>
            /\ result[n] = "err"
            /\ did[n] \cap {"create", "update"} = {}

\* C7 (idempotence): a pass of N that follows a pass of N that returned no
\* error, with no change of the store in between, and returns no error
\* itself, issues no create, no delete and no ledger write and leaves the
\* objects of N and the annotation as they were.
C7_Idempotence ==
    \A n \in Namespaces :
        Returned(n, "ok") /\ HasClass(n) /\ loc[n].follow =>
            /\ did[n] \cap {"create", "delete", "status"} = {}
            /\ InNs(n) = loc[n].start.objects
            /\ namespaces[n].lastName = loc[n].start.lastName

AllValid(spec) == \A m \in Elems(spec) : m.valid

\* the pass of n was aborted by a failing store operation, and neither
\* another failure nor an out-of-band edit can follow
Aborted(n) ==
    /\ Returned(n, "err")
    /\ "store error" \in did[n]
    /\ failures = MaxFailures
    /\ edits = MaxEdits
    /\ HasClass(n)
    /\ AllValid(ClassOf(n).spec)

Converged(n) ==
    /\ Returned(n, "ok")
    /\ HasClass(n)
    /\ \A m \in Elems(ClassOf(n).spec) :
         /\ Live(objects, Decode(m, n)) # {}
         /\ ResourceStatus(m) \in Elems(ClassOf(n).status)

\* C8 (retry convergence): once the store has stopped failing and nothing is
\* edited any more, a pass that a store failure aborted is followed, under
\* retries, by a pass that returns no error with every declared manifest live
\* and recorded in the ledger.
C8_RetryConvergence ==
    \A n \in Namespaces : Aborted(n) ~> Converged(n)

\* C9 (ledger writes under concurrency): with interleaved passes, (a) a step
\* that changes a stored ledger is taken by a pass whose copy of the class
\* carries the stored resourceVersion, (b) no step removes from a stored ledger
\* an entry whose kind the class declares, and (c) when a pass has returned no
\* error the stored ledger records every manifest the class declares.
C9_StaleWriteRefused ==
    \A c \in DOMAIN classes :
        classes'[c].status # classes[c].status =>
            \E n \in Namespaces :
                /\ loc'[n] # loc[n]
                /\ loc[n].namespaceClass.name = c
                /\ loc[n].namespaceClass.resourceVersion = classes[c].resourceVersion

C9_NoEntryLost ==
    \A c \in DOMAIN classes :
        \A e \in Elems(classes[c].status) :
            e \notin Elems(classes'[c].status) => ~Declares(classes[c].spec, e)

C9_LedgerComplete ==
    \A n \in Namespaces :
        Returned(n, "ok") /\ HasClass(n) =>
            \A m \in Elems(ClassOf(n).spec) :
                ResourceStatus(m) \in Elems(ClassOf(n).status)

C9_LedgerWritesUnderConcurrency ==
    /\ []C9_LedgerComplete
    /\ [][C9_StaleWriteRefused /\ C9_NoEntryLost]_vars

\* C9 witness: two passes share class A; the ledger write of n2 was refused as
\* a conflict after n1 had written the ledger.
C9_Witness ==
    /\ Returned("n2", "err")
    /\ "conflict" \in did["n2"]
    /\ namespaces["n1"].label = "A"
    /\ namespaces["n2"].label = "A"
    /\ classes["A"].status # <<>>

\* C10 (watch fan-out): when the list succeeded, the requests returned for a
\* class event contain each namespace labeled with the class exactly once and
\* no other namespace.
C10_WatchFanOut ==
    reqs.listed =>
        \A n \in Namespaces :
            Cardinality({p \in 1..Len(reqs.items) : reqs.items[p] = n})
                = IF namespaces[n].label = reqs.class THEN 1 ELSE 0

\* C10 witness: an event on class A, with n1 labeled A and n2 labeled B, was
\* mapped to the single request for n1.
C10_Witness ==
    /\ reqs.listed
    /\ reqs.class = "A"
    /\ reqs.items = <<"n1">>
    /\ namespaces["n2"].label = "B"

\* the store operations and decodings of the pass of n have all succeeded
Undisturbed(n) == did[n] \cap {"store error", "conflict", "decode error"} = {}

\* the name of the class the pass of n resolves ("" when there is none)
Resolved(n) == Fetched(namespaces[n].label).name

\* C11 (the annotation advances only after the sweep): (a) the stored
\* last-name annotation of a namespace changes from a class name to another
\* only in the step that follows the class-change sweep, when the sweep has
\* visited every manifest of the old class and none of the objects it had to
\* delete is live; (b) as long as a pass that found the annotation set has
\* not written the namespace, and so when the sweep or the fetch of the old
\* class failed, the stored annotation reads what it read when the pass
\* started.
C11_AdvanceAfterSweep ==
    \A n \in Namespaces :
        namespaces[n].lastName # Unset /\ namespaces'[n].lastName # namespaces[n].lastName =>
            /\ pc[n] = "updateNamespace"
            /\ loc[n].ci > Len(loc[n].oldSpec)
            /\ namespaces'[n].lastName = loc[n].namespaceClass.name
            /\ \A m \in Elems(loc[n].oldSpec) :
                 ~resourceExistsInNamespaceClass(Decode(m, n), loc[n].namespaceClass.spec)
                     => Live(objects, Decode(m, n)) = {}

C11_StaysOnFailure ==
    \A n \in Namespaces :
        pc[n] # "idle" /\ loc[n].start.lastName # Unset /\ "nsupdate" \notin did[n] =>
            namespaces[n].lastName = loc[n].start.lastName

C11_AnnotationAfterSweep ==
    /\ []C11_StaysOnFailure
    /\ [][C11_AdvanceAfterSweep]_vars

\* C11 witness: the class-change sweep of n1 (annotation A, label B) deleted
\* an object and the pass then failed; the stored annotation still reads A.
C11_Witness ==
    /\ Returned("n1", "err")
    /\ loc["n1"].start.lastName = "A"
    /\ namespaces["n1"].label = "B"
    /\ "delete" \in did["n1"]
    /\ "nsupdate" \notin did["n1"]
    /\ namespaces["n1"].lastName = "A"

\* C12 (class-change detector): (a) the class-change sweep is entered, and so
\* deletes, only when the annotation the pass started with is set and differs
\* from the name of the resolved class; (b) when the annotation was unset, a
\* pass that has written the namespace has stored the name of the resolved
\* class in it; (c) when the annotation was set and equal to that name, the
\* stored annotation keeps its value.
C12_ClassChangeDetector ==
    \A n \in Namespaces :
        /\ pc[n] = "handleNamespaceClassChange" =>
              /\ loc[n].start.lastName # Unset
              /\ loc[n].start.lastName # loc[n].namespaceClass.name
        /\ "nsupdate" \in did[n] /\ loc[n].start.lastName = Unset =>
              namespaces[n].lastName = Resolved(n)
        /\ pc[n] # "idle" /\ loc[n].start.lastName = Resolved(n) =>
              namespaces[n].lastName = loc[n].start.lastName

\* C12 witness: the first pass of n1 stored the annotation A and deleted
\* nothing.
C12_Witness ==
    /\ Returned("n1", "ok")
    /\ loc["n1"].start.lastName = Unset
    /\ namespaces["n1"].lastName = "A"
    /\ "create" \in did["n1"]
    /\ "delete" \notin did["n1"]

\* C13 (ledger invariant after a pass): after a pass that returned no error,
\* every entry of the ledger of the class has an {apiVersion, kind} that the
\* class declares.
C13_LedgerInvariant ==
    \A n \in Namespaces :
        Returned(n, "ok") /\ HasClass(n) =>
            \A e \in Elems(ClassOf(n).status) : Declares(ClassOf(n).spec, e)

\* C14 (an absent managed resource is not fatal): a pass that found, in the
\* ledger it started with, an orphaned entry whose object is not in its
\* namespace, and in which no store operation failed, returns no error and is
\* not ended by a NotFound.
C14_AbsentResourceNonFatal ==
    \A n \in Namespaces :
        pc[n] = "done" /\ HasClass(n) /\ Undisturbed(n)
        /\ (\E e \in Elems(loc[n].start.ledger) :
               /\ ~Declares(ClassOf(n).spec, e)
               /\ ~\E o \in loc[n].start.objects : Key(o) = Key(e)) =>
            /\ result[n] = "ok"
            /\ "not found" \notin did[n]

\* C15 (error propagation): (a) a pass in which a store operation failed has
\* returned an error; (b) the step in which a store operation of a pass fails
\* ends the pass and writes nothing; (c) a pass that has returned issues no
\* store operation: its only step frees the worker and changes nothing.
C15_FailureReturned ==
    \A n \in Namespaces :
        pc[n] = "done" /\ did[n] \cap {"store error", "conflict"} # {} => result[n] = "err"

C15_FailureEndsPass ==
    \A n \in Namespaces :
        /\ (did'[n] \ did[n]) \cap {"store error", "conflict"} # {} =>
              /\ pc'[n] = "done"
              /\ result'[n] = "err"
              /\ store' = store
        /\ pc[n] = "done" /\ pc'[n] # "done" =>
              /\ pc'[n] = "idle"
              /\ store' = store

C15_ErrorPropagation ==
    /\ []C15_FailureReturned
    /\ [][C15_FailureEndsPass]_vars

\* C15 witness: a store operation failed after the pass of n1 had created an
\* object; the pass returned the error.
C15_Witness ==
    /\ Returned("n1", "err")
    /\ "store error" \in did["n1"]
    /\ "create" \in did["n1"]

\* the request of the pass of n named a namespace the store does not hold
Absent(n) == ~namespaces[n].exists

\* C16 (no label, no operations): a pass of a namespace that does not exist
\* or has no class label, in which the store did not fail, returns no error
\* and has written nothing: no object, no ledger, no namespace.
C16_NoLabelNoOperations ==
    \A n \in Namespaces :
        pc[n] = "done" /\ (Absent(n) \/ namespaces[n].label = NoLabel)
        /\ "store error" \notin did[n] =>
            /\ result[n] = "ok"
            /\ did[n] \cap Writes = {}
            /\ InNs(n) = loc[n].start.objects
            /\ namespaces[n].lastName = loc[n].start.lastName

\* C16 witness: n1 lost its label after it was reconciled under class A; the
\* pass returned with the annotation and the objects of A still there.
C16_Witness ==
    /\ Returned("n1", "ok")
    /\ namespaces["n1"].label = NoLabel
    /\ namespaces["n1"].lastName = "A"
    /\ Decode(mX, "n1") \in objects

\* C17 (namespace confinement): a step that changes the managed objects of a
\* namespace is a step of the pass of that namespace, and it leaves the
\* objects of every other namespace as they were.
C17_Confined ==
    \A n \in Namespaces :
        {o \in objects' : o.namespace = n} # InNs(n) =>
            /\ pc'[n] # pc[n] \/ loc'[n] # loc[n]
            /\ pc[n] \notin {"idle", "done"}
            /\ \A m \in Namespaces \ {n} : {o \in objects' : o.namespace = m} = InNs(m)

C17_NamespaceConfinement == [][C17_Confined]_vars

\* C17 witness: n1 and n2 share class A; the pass of n2 has deleted an object
\* of n2 while n1 holds its own objects of the class.
C17_Witness ==
    /\ Returned("n2", "ok")
    /\ "delete" \in did["n2"]
    /\ namespaces["n1"].label = namespaces["n2"].label
    /\ Decode(mY, "n1") \in objects
    /\ Decode(mY, "n2") \in objects

\* C18 (the mapper swallows a list failure): when the list failed, the mapper
\* returned no request; and a call of the mapper changes neither the store
\* nor the position of any pass.
C18_NoRequests == reqs.class # "" /\ ~reqs.listed => reqs.items = <<>>

C18_NoEffect == reqs'.class # "" /\ reqs' # reqs => store' = store /\ pc' = pc

C18_MapperSwallowsListFailure ==
    /\ []C18_NoRequests
    /\ [][C18_NoEffect]_vars

\* C18 witness: the list failed for an event on class A while n1 is labeled A.
C18_Witness ==
    /\ reqs.class = "A"
    /\ ~reqs.listed
    /\ namespaces["n1"].label = "A"

\* C19 (no duplicate ledger entries): the stored ledger of a class never holds
\* the same {kind, name, apiVersion} twice.
C19_NoDuplicateLedgerEntries ==
    \A c \in DOMAIN classes :
        \A p, q \in 1..Len(classes[c].status) :
            classes[c].status[p] = classes[c].status[q] => p = q

\* C19 witness: the pass of n2 created an object that the pass of n1 had
\* already recorded in the ledger of the shared class, and appended nothing.
C19_Witness ==
    /\ Returned("n2", "ok")
    /\ "create" \in did["n2"]
    /\ "status" \notin did["n2"]
    /\ Len(classes["A"].status) >= 2
    /\ Decode(mX, "n1") \in objects

\* C20 (the sweeper deletes each orphan once): a pass that started with every
\* ledger-recorded object live in its namespace, and in which no store
\* operation and no decoding failed, returns no error.
C20_SweeperDeletesOnce ==
    \A n \in Namespaces :
        pc[n] = "done" /\ HasClass(n) /\ Undisturbed(n)
        /\ (\A e \in Elems(loc[n].start.ledger) :
               \E o \in loc[n].start.objects : Key(o) = Key(e)) =>
            result[n] = "ok"

====
